---- MODULE Spec2Model ----
(***************************************************************************)
(* State machine of the "This or That" App component (React 18,            *)
(* production build): the hooks of App are the variables, every event      *)
(* handler / promise continuation is one action, and each action ends      *)
(* with the commit of the batched state updates followed by the passive    *)
(* effect (useEffect) when one of its dependencies changed.                *)
(*                                                                         *)
(* JavaScript arrays are 0-based; `history` is a TLA+ sequence (1-based)   *)
(* and `historyIndex` keeps the 0-based value of the code, so              *)
(* history[historyIndex] of the code is At(history, historyIndex).         *)
(*                                                                         *)
(* Updates made after an await are batched (createRoot), so a resolution   *)
(* commits history and historyIndex together.  The development-only        *)
(* double run of mount effects under React.StrictMode is not modelled.     *)
(***************************************************************************)
EXTENDS Integers, Sequences, FiniteSets, Bags, TLC

\* ------------------------------------------------------------------ bounds
\* number of categories of the fixed list that the user may select
NumCategories == 2
\* total number of handleGenerateNew invocations explored in one behaviour
MaxRequests == 3
\* the same, for the behaviours in which overlapping generations race
MaxRaceRequests == 5

\* --------------------------------------------------------------- constants
categories ==
  << "Everyday Life", "Superpowers", "Travel & Adventure", "Food & Drink",
     "Past or Future", "Silly Scenarios", "Animals", "Personal Quirks",
     "Relationships" >>

Categories == { categories[i] : i \in 1..NumCategories }

\* The two phrases the generation service writes for a prompt naming
\* category c (one fixed pair per category keeps responses attributable).
FirstPhrase ==  << "A1", "A2", "A3", "A4", "A5", "A6", "A7", "A8", "A9" >>
SecondPhrase == << "B1", "B2", "B3", "B4", "B5", "B6", "B7", "B8", "B9" >>

CategoryIndex(c) == CHOOSE i \in 1..Len(categories) : categories[i] = c

\* ------------------------------------------------------------- JSON values
\* A decoded JSON value: type is "string", "number", "object" or "array";
\* s is the text of a string; items are the elements of an array.
JStr(t) == [type |-> "string", s |-> t, items |-> <<>>]
JNum == [type |-> "number", s |-> "", items |-> <<>>]
JObj == [type |-> "object", s |-> "", items |-> <<>>]
JArr(xs) == [type |-> "array", s |-> "", items |-> xs]

\* Text of candidates[0].content.parts[0].text: either well-formed JSON
\* text of a value, or text that is not JSON at all.
JsonText(v) == [wellFormed |-> TRUE, value |-> v]
Garbage == [wellFormed |-> FALSE, value |-> JObj]

\* What the service may put in the text part for a prompt about category c.
ServiceTexts(c) ==
  LET a == JStr(FirstPhrase[CategoryIndex(c)])
      b == JStr(SecondPhrase[CategoryIndex(c)])
      e == JStr("")
  IN  { JsonText(JArr(<<a, b>>)),
        JsonText(JArr(<<a, e>>)),
        JsonText(JArr(<<e, e>>)),
        JsonText(JArr(<<a, b, a>>)),
        JsonText(JArr(<<a>>)),
        JsonText(JArr(<<JNum, b>>)),
        JsonText(a),
        Garbage }

\* Everything the network call can come back with.
\*   network  : fetch() rejected
\*   http     : response.ok is false; bodyJson says whether the error body
\*              could be read by response.json()
\*   body     : response.ok, but response.json() rejected
\*   envelope : response.ok, JSON body without a usable candidates list
\*   text     : response.ok, candidates[0].content.parts[0].text = text
Responses(c) ==
  { [kind |-> "network", bodyJson |-> FALSE, text |-> Garbage],
    [kind |-> "http", bodyJson |-> TRUE, text |-> Garbage],
    [kind |-> "http", bodyJson |-> FALSE, text |-> Garbage],
    [kind |-> "body", bodyJson |-> FALSE, text |-> Garbage],
    [kind |-> "envelope", bodyJson |-> TRUE, text |-> Garbage] }
  \cup { [kind |-> "text", bodyJson |-> TRUE, text |-> t] : t \in ServiceTexts(c) }

NoResponse == [kind |-> "none", bodyJson |-> FALSE, text |-> Garbage]

\* --------------------------------------------------------------- variables
VARIABLES
  selectedCategory,  \* useState('Everyday Life')
  optionA,           \* useState('')
  optionB,           \* useState('')
  isLoading,         \* useState(false)
  error,             \* useState(''): the parts of the message, <<>> for ''
  history,           \* useState([])
  historyIndex,      \* useState(-1)
  apiKey,            \* process.env.REACT_APP_GEMINI_API_KEY is set
  mounted,           \* the component has been mounted (first effect ran)
  pending,           \* bag of handleGenerateNew invocations awaiting their fetchOptionsFromAI
  issued,            \* number of handleGenerateNew invocations so far
  fetches,           \* number of fetch() calls so far
  last               \* the event handled last

vars == << selectedCategory, optionA, optionB, isLoading, error, history,
           historyIndex, apiKey, mounted, pending, issued, fetches, last >>

\* The hooks' values as one record, so that handlers compose as functions.
State ==
  [ selectedCategory |-> selectedCategory, optionA |-> optionA,
    optionB |-> optionB, isLoading |-> isLoading, error |-> error,
    history |-> history, historyIndex |-> historyIndex, apiKey |-> apiKey,
    pending |-> pending, issued |-> issued, fetches |-> fetches ]


\* ------------------------------------------------------------ JS helpers
\* array[i] of JavaScript: defined exactly for 0 <= i < array.length
HasAt(array, i) == 0 <= i /\ i < Len(array)
At(array, i) == array[i + 1]

\* array.slice(0, n) for n >= 0
Slice(array, n) == SubSeq(array, 1, IF n < Len(array) THEN n ELSE Len(array))

\* The argument handleGenerateNew receives: the effect passes a boolean
\* ("true"/"false"), the Next button passes its click event ("event").
\* `initialLoad ? x : y` tests the argument's truthiness; an object is truthy.
Truthy(initialLoad) == initialLoad # "false"

BoolArg(b) == IF b THEN "true" ELSE "false"

\* One handleGenerateNew invocation suspended at `await fetchOptionsFromAI`:
\* the selectedCategory and historyIndex of the render whose closure it is,
\* its argument, and whether fetchOptionsFromAI got as far as fetch().
Invocation(category, index, initialLoad, fetch) ==
  [ selectedCategory |-> category, historyIndex |-> index,
    initialLoad |-> initialLoad, fetch |-> fetch ]

NoCall == Invocation("", -1, "false", FALSE)

\* ------------------------------------------------------ Generation client
ConfigMessage == "GEMINI_API_KEY is not configured"
FormatMessage == "AI response format was unexpected"
EmptyMessage == "Failed to generate options from AI"
HttpMessage == "HTTP error! Status"
\* messages of errors thrown by the platform (fetch, response.json, JSON.parse)
NetworkMessage == "Failed to fetch"
SyntaxMessage == "Unexpected token"

\* setError(`Failed to fetch options: ${err.message}. Please check ...`)
Banner(message) ==
  << "Failed to fetch options: ", message,
     ". Please check your network or API key configuration." >>

\* How fetchOptionsFromAI ends: it returns options, or its catch block
\* receives an error (threw) and returns ['', '']; escaped marks a rejection
\* that leaves fetchOptionsFromAI (none does: the whole body is in the try).
Returned(options) ==
  [threw |-> FALSE, escaped |-> FALSE, message |-> "", options |-> options]

\* An error thrown where no catch block receives it
ThrownUncaught(message) ==
  [threw |-> TRUE, escaped |-> TRUE, message |-> message, options |-> <<"", "">>]

Thrown(message) ==
  [threw |-> TRUE, escaped |-> FALSE, message |-> message, options |-> <<"", "">>]

\* Array.isArray(options) && options.length === 2 &&
\* typeof options[0] === 'string' && typeof options[1] === 'string'
IsTwoStrings(options) ==
  /\ options.type = "array"
  /\ Len(options.items) = 2
  /\ options.items[1].type = "string"
  /\ options.items[2].type = "string"

\* The try block of fetchOptionsFromAI: what it returns, or the message of
\* the error its catch block receives.  hasKey is !!apiKey.
fetchOptionsFromAI(hasKey, response) ==
  IF ~hasKey THEN Thrown(ConfigMessage)
  ELSE IF response.kind = "network" THEN Thrown(NetworkMessage)
  ELSE IF response.kind = "http" THEN
         IF response.bodyJson THEN Thrown(HttpMessage) ELSE Thrown(SyntaxMessage)
  ELSE IF response.kind = "body" THEN Thrown(SyntaxMessage)
  ELSE IF response.kind = "envelope" THEN Thrown(EmptyMessage)
  ELSE IF ~response.text.wellFormed THEN Thrown(SyntaxMessage)
  ELSE LET options == response.text.value
       IN  IF IsTwoStrings(options)
             THEN Returned(<< options.items[1].s, options.items[2].s >>)
             ELSE Thrown(FormatMessage)

\* --------------------------------------------------------- Session control
\* handleGenerateNew up to its await with a client that does not test the
\* key before calling fetch()
handleGenerateNewStartNoKeyCheck(s, initialLoad) ==
  [ s EXCEPT
      !.isLoading = TRUE,
      !.error = <<>>,
      !.pending = s.pending (+) SetToBag({ Invocation(s.selectedCategory,
                                 s.historyIndex, initialLoad, TRUE) }),
      !.issued = s.issued + 1,
      !.fetches = s.fetches + 1 ]

\* handleGenerateNew up to its await with a client that does not call
\* setError('') first
handleGenerateNewStartKeepsError(s, initialLoad) ==
  [ s EXCEPT
      !.isLoading = TRUE,
      !.error = IF s.apiKey THEN s.error ELSE Banner(ConfigMessage),
      !.pending = s.pending (+) SetToBag({ Invocation(s.selectedCategory,
                                 s.historyIndex, initialLoad, s.apiKey) }),
      !.issued = s.issued + 1,
      !.fetches = IF s.apiKey THEN s.fetches + 1 ELSE s.fetches ]

\* handleGenerateNew up to its await: setIsLoading(true), and the part of
\* fetchOptionsFromAI that runs before it suspends: setError(''), then either
\* the missing-key throw (caught at once: setError(banner)) or fetch().
handleGenerateNewStart(s, initialLoad) ==
  [ s EXCEPT
      !.isLoading = TRUE,
      !.error = IF s.apiKey THEN <<>> ELSE Banner(ConfigMessage),
      !.pending = s.pending (+) SetToBag({ Invocation(s.selectedCategory,
                                 s.historyIndex, initialLoad, s.apiKey) }),
      !.issued = s.issued + 1,
      !.fetches = IF s.apiKey THEN s.fetches + 1 ELSE s.fetches ]

\* if (newOptionA || newOptionB)
Generated(result) == result.options[1] # "" \/ result.options[2] # ""

\* handleGenerateNew after its await without the `if (newOptionA ||
\* newOptionB)` test: an entry is recorded whatever the client returned.
handleGenerateNewResumeUnguarded(s, call, result) ==
  LET newHistoryItem == [ category |-> call.selectedCategory,
                          optionA |-> result.options[1],
                          optionB |-> result.options[2] ]
      updatedHistory == IF Truthy(call.initialLoad) THEN <<>>
                        ELSE Slice(s.history, call.historyIndex + 1)
  IN  [ s EXCEPT
          !.pending = s.pending (-) SetToBag({call}),
          !.error = IF call.fetch /\ result.threw THEN Banner(result.message)
                    ELSE s.error,
          !.history = Append(updatedHistory, newHistoryItem),
          !.historyIndex = IF Truthy(call.initialLoad) THEN 0
                           ELSE s.historyIndex + 1,
          !.optionA = result.options[1],
          !.optionB = result.options[2],
          !.isLoading = FALSE ]

\* handleGenerateNew after its await with an entry that reads the category
\* selected when the request resolves instead of the closure's selectedCategory
handleGenerateNewResumeCurrentCategory(s, call, result) ==
  LET newHistoryItem == [ category |-> s.selectedCategory,
                          optionA |-> result.options[1],
                          optionB |-> result.options[2] ]
      updatedHistory == IF Truthy(call.initialLoad) THEN <<>>
                        ELSE Slice(s.history, call.historyIndex + 1)
  IN  IF result.escaped
        THEN [ s EXCEPT !.pending = s.pending (-) SetToBag({call}) ]
        ELSE
      [ s EXCEPT
          !.pending = s.pending (-) SetToBag({call}),
          !.error = IF call.fetch /\ result.threw THEN Banner(result.message)
                    ELSE s.error,
          !.history = IF Generated(result)
                        THEN Append(updatedHistory, newHistoryItem)
                        ELSE s.history,
          !.historyIndex = IF Generated(result)
                             THEN (IF Truthy(call.initialLoad) THEN 0
                                   ELSE s.historyIndex + 1)
                             ELSE s.historyIndex,
          !.optionA = result.options[1],
          !.optionB = result.options[2],
          !.isLoading = FALSE ]

\* handleGenerateNew after its await, for invocation `call` whose
\* fetchOptionsFromAI ended with `result` (the catch block's setError
\* included); functional updaters see the current history / historyIndex.
handleGenerateNewResume(s, call, result) ==
  LET newHistoryItem == [ category |-> call.selectedCategory,
                          optionA |-> result.options[1],
                          optionB |-> result.options[2] ]
      updatedHistory == IF Truthy(call.initialLoad) THEN <<>>
                        ELSE Slice(s.history, call.historyIndex + 1)
  IN  IF result.escaped
        \* `await` rethrows: handleGenerateNew has no try, nothing after runs
        THEN [ s EXCEPT !.pending = s.pending (-) SetToBag({call}) ]
        ELSE
      [ s EXCEPT
          !.pending = s.pending (-) SetToBag({call}),
          !.error = IF call.fetch /\ result.threw THEN Banner(result.message)
                    ELSE s.error,
          !.history = IF Generated(result)
                        THEN Append(updatedHistory, newHistoryItem)
                        ELSE s.history,
          !.historyIndex = IF Generated(result)
                             THEN (IF Truthy(call.initialLoad) THEN 0
                                   ELSE s.historyIndex + 1)
                             ELSE s.historyIndex,
          !.optionA = result.options[1],
          !.optionB = result.options[2],
          !.isLoading = FALSE ]

\* history[newIndex] is undefined: reading .optionA of it throws
PreviousThrows(s) == ~HasAt(s.history, s.historyIndex - 1)

\* handlePrevious without setSelectedCategory(prevQuestion.category)
handlePreviousKeepsCategory(s) ==
  IF s.historyIndex > 0 /\ ~PreviousThrows(s)
    THEN LET newIndex == s.historyIndex - 1
             prevQuestion == At(s.history, newIndex)
         IN  [ s EXCEPT
                 !.optionA = prevQuestion.optionA,
                 !.optionB = prevQuestion.optionB,
                 !.historyIndex = newIndex ]
    ELSE s

\* handlePrevious; a TypeError leaves the state as it was
handlePrevious(s) ==
  IF s.historyIndex > 0 /\ ~PreviousThrows(s)
    THEN LET newIndex == s.historyIndex - 1
             prevQuestion == At(s.history, newIndex)
         IN  [ s EXCEPT
                 !.optionA = prevQuestion.optionA,
                 !.optionB = prevQuestion.optionB,
                 !.selectedCategory = prevQuestion.category,
                 !.historyIndex = newIndex ]
    ELSE s

\* The effect's condition without the category comparison
\* (if (!currentQuestion))
NeedsGenerationIgnoresCategory(s) == ~HasAt(s.history, s.historyIndex)

\* The condition of the regeneration effect
NeedsGeneration(s) ==
  \/ ~HasAt(s.history, s.historyIndex)
  \/ At(s.history, s.historyIndex).category # s.selectedCategory

\* The body of useEffect calling handleGenerateNew() without its argument
\* (initialLoad defaults to false)
useEffectDefaultArgument(s) ==
  IF NeedsGeneration(s)
    THEN handleGenerateNewStart(s, "false")
    ELSE s

\* The body of useEffect
useEffect(s) ==
  IF NeedsGeneration(s)
    THEN handleGenerateNewStart(s, BoolArg(s.historyIndex = -1))
    ELSE s

\* Commit with an effect that regenerates on every change of
\* selectedCategory, without comparing it to the entry at the cursor
CommitRegeneratesOnSelect(old, new, historySet) ==
  IF old.selectedCategory # new.selectedCategory
    THEN handleGenerateNewStart(new, BoolArg(new.historyIndex = -1))
    ELSE IF old.historyIndex # new.historyIndex \/ historySet
           THEN useEffect(new)
           ELSE new

\* Commit with an effect that has no dependency list: it runs after every
\* render
CommitEveryRender(old, new, historySet) == useEffect(new)

\* Commit of the state `new` computed by a handler from `old`, then the
\* effect if one of [selectedCategory, handleGenerateNew, history,
\* historyIndex] changed.  handleGenerateNew is a new function exactly when
\* selectedCategory or historyIndex changed; history is a new array exactly
\* when setHistory's updater ran (historySet).
Commit(old, new, historySet) ==
  IF \/ old.selectedCategory # new.selectedCategory
     \/ old.historyIndex # new.historyIndex
     \/ historySet
    THEN useEffect(new)
    ELSE new

\* ------------------------------------------------------------------ events
\* The event handled last: op is "init", "mount", "select", "next",
\* "previous" or "resolve"; call and result describe the invocation a
\* "resolve" finished ("success": an entry was recorded, "error": the client
\* caught an error, "blank": the client returned two empty strings, "crash":
\* an error left the client and ended handleGenerateNew at its await);
\* changed says that selectedCategory or historyIndex was moved by the
\* handler; started says that a generation was started during the event.
Event(op, call, result, changed, started) ==
  [ op |-> op, call |-> call, result |-> result, changed |-> changed,
    started |-> started ]

\* The continuation of an invocation that never reached fetch() is a
\* microtask: it runs before the browser dispatches any other event.
NoMicrotask == \A call \in BagToSet(pending) : call.fetch

Update(s) ==
  /\ selectedCategory' = s.selectedCategory
  /\ optionA' = s.optionA
  /\ optionB' = s.optionB
  /\ isLoading' = s.isLoading
  /\ error' = s.error
  /\ history' = s.history
  /\ historyIndex' = s.historyIndex
  /\ pending' = s.pending
  /\ issued' = s.issued
  /\ fetches' = s.fetches
  /\ UNCHANGED apiKey

Init ==
  /\ selectedCategory = "Everyday Life"
  /\ optionA = ""
  /\ optionB = ""
  /\ isLoading = FALSE
  /\ error = <<>>
  /\ history = <<>>
  /\ historyIndex = -1
  /\ apiKey \in BOOLEAN
  /\ mounted = FALSE
  /\ pending = EmptyBag
  /\ issued = 0
  /\ fetches = 0
  /\ last = Event("init", NoCall, "none", FALSE, FALSE)

\* root.render(<App />): first render, then the effect runs once
Mount(limit) ==
  /\ ~mounted
  /\ mounted' = TRUE
  /\ LET final == useEffect(State)
     IN  /\ final.issued <= limit
         /\ Update(final)
         /\ last' = Event("mount", NoCall, "none", FALSE, final.issued > issued)

\* onClick={() => setSelectedCategory(category)} of a category button
SelectCategory(category, limit) ==
  /\ mounted
  /\ NoMicrotask
  /\ LET new == [State EXCEPT !.selectedCategory = category]
         final == Commit(State, new, FALSE)
     IN  /\ final.issued <= limit
         /\ Update(final)
         /\ last' = Event("select", NoCall, "none",
                          category # selectedCategory, final.issued > issued)
  /\ UNCHANGED mounted

\* onClick={handleGenerateNew} of the Next Question button,
\* disabled={isLoading}: the handler's argument is the click event
NextQuestion(limit) ==
  /\ mounted
  /\ NoMicrotask
  /\ ~isLoading
  /\ LET new == handleGenerateNewStart(State, "event")
         final == Commit(State, new, FALSE)
     IN  /\ final.issued <= limit
         /\ Update(final)
         /\ last' = Event("next", NoCall, "none", FALSE, TRUE)
  /\ UNCHANGED mounted

\* onClick={handlePrevious} of the Previous Question button,
\* disabled={isLoading || historyIndex <= 0}
PreviousQuestion(limit) ==
  /\ mounted
  /\ NoMicrotask
  /\ ~(isLoading \/ historyIndex <= 0)
  /\ LET new == handlePrevious(State)
         final == Commit(State, new, FALSE)
     IN  /\ final.issued <= limit
         /\ Update(final)
         /\ last' = Event("previous", NoCall, "none",
                          new.historyIndex # historyIndex, final.issued > issued)
  /\ UNCHANGED mounted

ResultKind(result) ==
  IF result.escaped THEN "crash"
  ELSE IF Generated(result) THEN "success"
  ELSE IF result.threw THEN "error" ELSE "blank"

\* The awaited fetchOptionsFromAI of one pending invocation settles with
\* `response` and handleGenerateNew runs to its end.
Resolve(call, response, limit) ==
  /\ mounted
  /\ call \in BagToSet(pending)
  /\ response \in (IF call.fetch THEN Responses(call.selectedCategory)
                   ELSE {NoResponse})
  /\ LET result == fetchOptionsFromAI(call.fetch, response)
         new == handleGenerateNewResume(State, call, result)
         final == Commit(State, new, Generated(result))
     IN  /\ final.issued <= limit
         /\ Update(final)
         /\ last' = Event("resolve", call, ResultKind(result), FALSE,
                          final.issued > issued)
  /\ UNCHANGED mounted

AllCalls ==
  { Invocation(c, i, a, f) : c \in Categories, i \in -1..MaxRaceRequests,
                             a \in {"true", "false", "event"}, f \in BOOLEAN }

AllResponses == UNION { Responses(c) : c \in Categories } \cup {NoResponse}

Next ==
  \/ Mount(MaxRequests)
  \/ \E category \in Categories : SelectCategory(category, MaxRequests)
  \/ NextQuestion(MaxRequests)
  \/ PreviousQuestion(MaxRequests)
  \/ \E call \in AllCalls, response \in AllResponses :
        Resolve(call, response, MaxRequests)

Spec == Init /\ [][Next]_vars

\* The same program, followed for more generations
RaceNext ==
  \/ Mount(MaxRaceRequests)
  \/ \E category \in Categories : SelectCategory(category, MaxRaceRequests)
  \/ NextQuestion(MaxRaceRequests)
  \/ PreviousQuestion(MaxRaceRequests)
  \/ \E call \in AllCalls, response \in AllResponses :
        Resolve(call, response, MaxRaceRequests)

RaceSpec == Init /\ [][RaceNext]_vars

\* ================================================================= claims
IsEmptyString(parts) == \A i \in 1..Len(parts) : parts[i] = ""

\* The entry a "resolve" event recorded: the invocation's category with the
\* pair now displayed.
RecordedEntry ==
  [ category |-> last.call.selectedCategory, optionA |-> optionA,
    optionB |-> optionB ]

\* C1: in every reachable state historyIndex is -1 or a valid index into
\* history (0 <= historyIndex < history.length).
C1_CursorInRange ==
  historyIndex = -1 \/ (0 <= historyIndex /\ historyIndex < Len(history))

\* C2: at most one generation request is outstanding at any time.
C2_SingleOutstanding == BagCardinality(pending) <= 1

\* C3: a generation started by the Next Question button with cursor k >= 0
\* that succeeds leaves the first k+1 prior entries followed by the new
\* entry, and the cursor at k+1 (never a one-element history).
C3_NextAppends ==
  [][ ( /\ last'.op = "resolve"
        /\ last'.result = "success"
        /\ last'.call.initialLoad = "event"
        /\ last'.call.historyIndex >= 0 )
      => /\ Len(history') = last'.call.historyIndex + 2
         /\ SubSeq(history', 1, last'.call.historyIndex + 1)
              = SubSeq(history, 1, last'.call.historyIndex + 1)
         /\ historyIndex' = last'.call.historyIndex + 1 ]_vars

\* C4: a failed generation attempt (started by a category selection or by
\* Next, and ended by a client error or by two empty strings) leaves history
\* and historyIndex as they were, at its start and at its end; so any run of
\* consecutive failed attempts leaves them as before the first.
C4_FailureKeepsHistory ==
  [][ ( \/ last'.op \in {"select", "next"}
        \/ (last'.op = "resolve" /\ last'.result # "success") )
      => (history' = history /\ historyIndex' = historyIndex) ]_vars

C4_Witness ==
  /\ last.op = "resolve"
  /\ last.result \in {"error", "blank"}
  /\ Len(history) > 0
  /\ issued >= 2

\* C5: whenever a generation ends in failure (client error, or a payload of
\* two empty strings) the pair is cleared, the error message is non-empty
\* and isLoading is false.
C5_FailureState ==
  (last.op = "resolve" /\ last.result # "success")
    => /\ optionA = "" /\ optionB = ""
       /\ ~IsEmptyString(error)
       /\ ~isLoading

\* C6: handlePrevious is a no-op when historyIndex <= 0; when the Previous
\* button can be clicked (historyIndex > 0) it lowers historyIndex by
\* exactly 1 and shows the pair and category of the entry at the new index.
C6_Previous ==
  LET r == handlePrevious(State)
  IN  /\ historyIndex <= 0 => r = State
      /\ (mounted /\ NoMicrotask /\ ~isLoading /\ historyIndex > 0)
           => /\ r.historyIndex = historyIndex - 1
              /\ HasAt(history, r.historyIndex)
              /\ r.optionA = At(history, r.historyIndex).optionA
              /\ r.optionB = At(history, r.historyIndex).optionB
              /\ r.selectedCategory = At(history, r.historyIndex).category

\* C7: a click on Previous never changes history and never starts a
\* generation, neither in the handler nor in the effect that runs after it.
C7_PreviousNoGeneration ==
  [][ last'.op = "previous"
      => /\ history' = history
         /\ pending' = pending
         /\ issued' = issued
         /\ fetches' = fetches ]_vars

C7_Witness ==
  /\ last.op = "previous"
  /\ last.changed
  /\ ~last.started
  /\ At(history, historyIndex).category # At(history, historyIndex + 1).category

\* C8: with no generation outstanding and a valid cursor k, selecting a
\* category other than history[k].category starts a generation for it; and
\* when a generation started by the effect at cursor k >= 0 succeeds,
\* history is its first k+1 prior entries followed by the new entry and the
\* cursor is k+1.
C8_CategoryChange ==
  [][ /\ ( /\ last'.op = "select"
           /\ pending = EmptyBag
           /\ HasAt(history, historyIndex)
           /\ At(history, historyIndex).category # selectedCategory' )
        => /\ issued' = issued + 1
           /\ BagIn(Invocation(selectedCategory', historyIndex, "false", apiKey),
                    pending')
      /\ ( /\ last'.op = "resolve"
           /\ last'.result = "success"
           /\ last'.call.initialLoad = "false"
           /\ last'.call.historyIndex >= 0 )
        => /\ Len(history') = last'.call.historyIndex + 2
           /\ SubSeq(history', 1, last'.call.historyIndex + 1)
                = SubSeq(history, 1, last'.call.historyIndex + 1)
           /\ historyIndex' = last'.call.historyIndex + 1 ]_vars

\* C9: selecting the category of the entry at the cursor (cursor # -1)
\* starts no generation and leaves history and historyIndex unchanged.
C9_SameCategoryNoGeneration ==
  [][ ( /\ last'.op = "select"
        /\ historyIndex # -1
        /\ HasAt(history, historyIndex)
        /\ At(history, historyIndex).category = selectedCategory' )
      => /\ issued' = issued
         /\ pending' = pending
         /\ fetches' = fetches
         /\ history' = history
         /\ historyIndex' = historyIndex ]_vars

C9_Witness ==
  /\ last.op = "select"
  /\ last.changed
  /\ ~last.started
  /\ HasAt(history, historyIndex)
  /\ At(history, historyIndex).category = selectedCategory

\* C10: every generation started while historyIndex = -1 carries a truthy
\* initialLoad, and when it succeeds history is exactly the one new entry and
\* historyIndex is 0.
C10_InitialLoad ==
  /\ \A call \in BagToSet(pending) :
       call.historyIndex = -1 => Truthy(call.initialLoad)
  /\ (last.op = "resolve" /\ last.result = "success"
        /\ last.call.historyIndex = -1)
       => /\ history = << RecordedEntry >>
          /\ historyIndex = 0

C10_Witness ==
  /\ last.op = "resolve"
  /\ last.result = "success"
  /\ last.call.historyIndex = -1
  /\ history = << RecordedEntry >>
  /\ pending # EmptyBag

\* A pair is displayed: at least one option text is non-empty.
PairDisplayed == optionA # "" \/ optionB # ""

\* C11 (as claimed): whenever historyIndex # -1 and no generation is in
\* flight, the entry at historyIndex has the selected category.
C11_CategoryMatches ==
  (historyIndex # -1 /\ pending = EmptyBag)
    => /\ HasAt(history, historyIndex)
       /\ At(history, historyIndex).category = selectedCategory

\* C11 (amended): whenever historyIndex # -1, no generation is in flight and
\* a pair is displayed (the generation that ended last did not fail),
\* historyIndex is a valid index and the entry there has the selected
\* category.
C11_CategoryMatchesWhenDisplayed ==
  (historyIndex # -1 /\ pending = EmptyBag /\ PairDisplayed)
    => /\ HasAt(history, historyIndex)
       /\ At(history, historyIndex).category = selectedCategory

C11_Witness ==
  /\ pending = EmptyBag
  /\ PairDisplayed
  /\ historyIndex = 1
  /\ last.op = "resolve"
  /\ last.result = "success"
  /\ last.call.initialLoad = "false"
  /\ At(history, 0).category # selectedCategory

\* C12: the step that ends a generation in failure starts no generation and
\* sends no request: the pending invocations only lose the failed one, so
\* nothing is requested again until the user selects a category or clicks
\* Next.
C12_NoAutomaticRetry ==
  [][ (last'.op = "resolve" /\ last'.result # "success")
      => /\ issued' = issued
         /\ fetches' = fetches
         /\ pending' = pending (-) SetToBag({last'.call}) ]_vars

C12_Witness ==
  /\ last.op = "resolve"
  /\ last.result = "error"
  /\ ~last.started
  /\ pending = EmptyBag
  /\ NeedsGeneration(State)

\* C13: the client returns without an error only for a payload of exactly
\* two non-empty strings, so both options of every history entry are
\* non-empty.
C13_OnlyNonEmptyPairs ==
  /\ \A i \in 1..Len(history) :
       history[i].optionA # "" /\ history[i].optionB # ""
  /\ (last.op = "resolve" /\ last.result # "error")
       => (optionA # "" /\ optionB # "")

C16_GenerationOutcome ==
  last.op = "resolve"
    => \/ /\ optionA # "" /\ optionB # ""
          /\ history # <<>>
          /\ history[Len(history)] = RecordedEntry
       \/ /\ ~IsEmptyString(error)
          /\ last.result # "success"

\* C17: in every state with isLoading false in which some generation has
\* resolved, either no error is set and a pair is displayed, or an error is
\* set and the pair is empty.
C17_IdleOrErrored ==
  (~isLoading /\ issued > BagCardinality(pending))
    => \/ (IsEmptyString(error) /\ optionA # "" /\ optionB # "")
       \/ (~IsEmptyString(error) /\ optionA = "" /\ optionB = "")

\* C18: when a generation started by the effect is the only one outstanding,
\* the user has done nothing since it started (selectedCategory and
\* historyIndex are those of its closure) and it succeeds, the updates of
\* that success start no further generation.
C18_OneRequestPerMismatch ==
  [][ ( /\ last'.op = "resolve"
        /\ last'.result = "success"
        /\ last'.call.initialLoad \in {"true", "false"}
        /\ pending = SetToBag({last'.call})
        /\ selectedCategory = last'.call.selectedCategory
        /\ historyIndex = last'.call.historyIndex )
      => (issued' = issued /\ pending' = EmptyBag) ]_vars

\* The generation procedure itself leaves the pair, history and
\* historyIndex alone in the step that starts it from a user event, and
\* selectedCategory too unless the event is the selection.
StartFrame ==
  last'.op \in {"mount", "select", "next"}
    => /\ optionA' = optionA /\ optionB' = optionB
       /\ history' = history /\ historyIndex' = historyIndex
       /\ last'.op # "select" => selectedCategory' = selectedCategory

\* C19 (as claimed): every step that starts a generation ends with
\* isLoading true and the error cleared, and changes neither the pair nor
\* history, historyIndex or (but for the selection itself) selectedCategory.
C19_EnterLoading ==
  [][ last'.started
      => /\ isLoading'
         /\ IsEmptyString(error')
         /\ StartFrame ]_vars

\* C19 (amended): every step that starts a generation ends with isLoading
\* true and, when the API key is configured, the error cleared (without a
\* key the configuration error is set at once); it changes neither the pair
\* nor history, historyIndex or (but for the selection itself)
\* selectedCategory.
C19_EnterLoadingWithKey ==
  [][ last'.started
      => /\ isLoading'
         /\ error' = (IF apiKey THEN <<>> ELSE Banner(ConfigMessage))
         /\ StartFrame ]_vars

C19_Witness ==
  /\ apiKey
  /\ last.op = "next"
  /\ last.started
  /\ isLoading
  /\ error = <<>>
  /\ PairDisplayed
  /\ historyIndex = 1

\* C20: isLoading is true in every state in which at least one generation
\* request is outstanding.
C20_LoadingWhileOutstanding ==
  pending # EmptyBag => isLoading

\* A single generation is outstanding, started by the effect at a cursor
\* past the end of history, and the user has done nothing since.
Runaway ==
  \E call \in BagToSet(pending) :
     /\ pending = SetToBag({call})
     /\ call.initialLoad \in {"true", "false"}
     /\ call.historyIndex >= Len(history)
     /\ historyIndex = call.historyIndex
     /\ selectedCategory = call.selectedCategory

\* From such a state a success, with no user action, leads to such a state
\* again: the chain of automatic generations has no last element.
RunawayPersists ==
  [][ (Runaway /\ last'.op = "resolve" /\ last'.result = "success")
      => (Runaway' /\ issued' = issued + 1
          /\ Len(history') = Len(history) + 1) ]_vars

\* C21: the automatic trigger never produces an unbounded chain of
\* generations without user input, so no reachable state is one from which
\* every success, without user input, starts the next generation.
C21_Quiescence == ~Runaway

\* C22: in every state with isLoading false, the error empty and
\* historyIndex other than -1, the displayed pair is the pair stored in
\* history at historyIndex.
C22_DisplayedIsStored ==
  (~isLoading /\ error = <<>> /\ historyIndex # -1)
    => /\ HasAt(history, historyIndex)
       /\ optionA = At(history, historyIndex).optionA
       /\ optionB = At(history, historyIndex).optionB

\* The pairs of strings the service can answer a request for category c with.
PairsFor(c) ==
  { << t.value.items[1].s, t.value.items[2].s >> :
      t \in { x \in ServiceTexts(c) :
                /\ x.wellFormed
                /\ x.value.type = "array"
                /\ Len(x.value.items) = 2
                /\ x.value.items[1].type = "string"
                /\ x.value.items[2].type = "string" } }

\* C23: every history entry pairs a category with a response to a request
\* issued for that category, and the entry a successful generation records
\* carries the category captured when that generation started, whatever
\* selectedCategory has become since.
C23_EntryCategoryIsRequests ==
  /\ \A i \in 1..Len(history) :
        << history[i].optionA, history[i].optionB >>
          \in PairsFor(history[i].category)
  /\ (last.op = "resolve" /\ last.result = "success")
       => /\ history # <<>>
          /\ history[Len(history)].category = last.call.selectedCategory

C23_Witness ==
  /\ last.op = "resolve"
  /\ last.result = "success"
  /\ last.call.selectedCategory # selectedCategory
  /\ history # <<>>
  /\ history[Len(history)].category = last.call.selectedCategory
  /\ history[Len(history)].optionA = FirstPhrase[CategoryIndex(last.call.selectedCategory)]

====
